---------------------------- MODULE Spec2Model ----------------------------
(***************************************************************************)
(* A model of rustphoto: the size-targeted JPEG search of                  *)
(* rustphoto/compression.rs, the transforms of rustphoto/transforms.rs    *)
(* and the command dispatcher of main.rs.                                  *)
(*                                                                         *)
(* Two specifications share the module.  SpecEnc runs one call of          *)
(* save_jpeg_compressed against an encoder drawn in its initial state.     *)
(* Spec runs the dispatcher: load, transforms, undo.  main.rs never calls  *)
(* save_jpeg_compressed, so the two state machines do not interact.        *)
(***************************************************************************)
EXTENDS Integers, Sequences, FiniteSets, TLC

VARIABLES
    \* ---- save_jpeg_compressed (compression.rs) ----
    enc,        \* the encoder the call runs against (external collaborator)
    max_size,   \* argument max_size: usize
    low,        \* let mut low = 1u8
    high,       \* let mut high = 100u8
    best,       \* let mut best: Option<(u8, Vec<u8>)>; the bytes kept as their length
    epc,        \* position in the function: "loop", "match", "done", "panic"
    outcome,    \* the value the call returned, once epc = "done"
    probes,     \* history: the calls of encode_jpeg_to_buffer, in order, each
                \* [quality, ok, size]
    \* ---- one transform applied repeatedly (transforms.rs) ----
    t_src,      \* the buffer the first apply is given
    t_op,       \* the transform (a struct of transforms.rs with its fields)
    t_n,        \* how many times apply has been called
    t_res,      \* what the last apply returned
    \* ---- the command loop (main.rs) ----
    current_image,  \* let mut current_image: Option<Image>
    previous_image, \* let mut previous_image: Option<Image>
    dpc,            \* the loop: "prompt", "exited" (break) or "panicked"
    last,           \* history: the last command, [cmd, out]: its first word and
                    \* how it ended
    before_image,   \* history: current_image as the last command found it
    n_cmd           \* history: how many commands have been read

encVars == <<enc, max_size, low, high, best, epc, outcome, probes>>

applyVars == <<t_src, t_op, t_n, t_res>>

loopVars == <<current_image, previous_image, dpc, last, before_image, n_cmd>>

vars == <<enc, max_size, low, high, best, epc, outcome, probes,
          t_src, t_op, t_n, t_res,
          current_image, previous_image, dpc, last, before_image, n_cmd>>

None == [some |-> FALSE]

Some(v) == [some |-> TRUE, val |-> v]

(***************************************************************************)
(* The encoder.  encode_jpeg_to_buffer(image, quality) is a black box that *)
(* returns bytes (only their length matters to the search) or fails.       *)
(*   - a monotone encoder is a step function of the quality with three     *)
(*     levels and two cut points 0 <= c1 <= c2 <= 100: every pair of cut   *)
(*     points is enumerated, so the levels may start and end at any        *)
(*     quality, and equal cut points drop a level;                         *)
(*   - an arbitrary encoder answers each call with any of the levels, or   *)
(*     with an encoding error.  The search never asks for one quality      *)
(*     twice, so a fresh choice per call is a function of the quality.     *)
(***************************************************************************)
ApplyIdle ==
    /\ t_src = [width |-> 0, height |-> 0, pixels |-> <<>>]
    /\ t_op = [t |-> "Invert"]
    /\ t_n = 0
    /\ t_res = [kind |-> "none"]

\* main, lines 392-393, before the first command is read.
LoopIdle ==
    /\ current_image = None
    /\ previous_image = None
    /\ dpc = "prompt"
    /\ last = [cmd |-> "", out |-> ""]
    /\ before_image = None
    /\ n_cmd = 0

MinQuality == 1

MaxQuality == 100

FloorQuality == 10

Qualities == MinQuality..MaxQuality

Levels == <<98, 100, 101>>

LevelSet == {Levels[i] : i \in 1..Len(Levels)}

Budgets == {97, 98, 99, 100, 101, 102, 200}

MonoEncoders ==
    {[mono |-> TRUE, c1 |-> a, c2 |-> b] : a \in 0..MaxQuality, b \in 0..MaxQuality}

Encoders ==
    {e \in MonoEncoders : e.c1 <= e.c2} \cup {[mono |-> FALSE, c1 |-> 0, c2 |-> 0]}

MonoSize(e, q) ==
    IF q <= e.c1 THEN Levels[1] ELSE IF q <= e.c2 THEN Levels[2] ELSE Levels[3]

\* What one call encode_jpeg_to_buffer(image, q) can return.
EncodeResults(e, q) ==
    IF e.mono
    THEN {[ok |-> TRUE, size |-> MonoSize(e, q)]}
    ELSE {[ok |-> TRUE, size |-> s] : s \in LevelSet} \cup {[ok |-> FALSE, size |-> 0]}

Probe(q, r) == [quality |-> q, ok |-> r.ok, size |-> r.size]

(***************************************************************************)
(* u8 arithmetic.  A result outside 0..255 panics in a build with overflow *)
(* checks and wraps in one without: both outcomes are kept.                *)
(***************************************************************************)
U8(x) ==
    IF x \in 0..255
    THEN {[panic |-> FALSE, val |-> x]}
    ELSE {[panic |-> TRUE, val |-> 0], [panic |-> FALSE, val |-> x % 256]}

\* let mid = (low + high) / 2;   the sum is a u8
Mid(sum) == sum \div 2

\* A slip: the comparison admits one byte over the budget.
FitsOffByOne(size, max) == size <= max + 1

\* if size <= max_size
Fits(size, max) == size <= max

(***************************************************************************)
(* if size as f64 >= max_size as f64 * 0.99 { break; }                     *)
(* The f64 nearest 0.99 is 0.99 - d with 0 < d < 2^-56, and the product is *)
(* rounded to the nearest f64.  For max_size < 2^40 the exact product      *)
(* 99*max/100 is either an integer k, and the rounded product lies in      *)
(* (k - 1, k], or at least 1/100 away from every integer; in both cases an *)
(* integer size is >= the rounded product exactly when 100*size >= 99*max. *)
(***************************************************************************)
\* A slip: the early exit fires within 10% of the budget instead of 1%.
GoodEnoughTenPercent(size, max) == 100 * size >= 90 * max

GoodEnough(size, max) == 100 * size >= 99 * max

\* low = mid + 1;
NextLow(mid) == mid + 1

\* A slip: the upper end keeps the quality just refused (high = mid).
NextHighKeepsMid(mid) == mid

\* A slip: the upper end skips the quality below the one refused.
NextHighSkips(mid) == mid - 2

\* high = mid - 1;
NextHigh(mid) == mid - 1

InitEnc ==
    /\ enc \in Encoders
    /\ max_size \in Budgets
    /\ low = 1
    /\ high = 100
    /\ best = None
    /\ epc = "loop"
    /\ outcome = [kind |-> "running"]
    /\ probes = <<>>
    /\ ApplyIdle
    /\ LoopIdle

Panic ==
    /\ epc' = "panic"
    /\ outcome' = [kind |-> "panic"]

\* One iteration of `while low <= high { ... }`, lines 44-60.
SearchStep ==
    /\ epc = "loop"
    /\ low <= high
    /\ \E s \in U8(low + high) :
         IF s.panic
         THEN Panic /\ UNCHANGED <<enc, max_size, low, high, best, probes>>
         ELSE LET mid == Mid(s.val) IN
              /\ \E r \in EncodeResults(enc, mid) :
                   /\ probes' = Append(probes, Probe(mid, r))
                   /\ IF ~r.ok
                      THEN \* encode_jpeg_to_buffer(image, mid)? returns the error
                           /\ epc' = "done"
                           /\ outcome' = [kind |-> "JpegEncoding"]
                           /\ UNCHANGED <<low, high, best>>
                      ELSE IF Fits(r.size, max_size)
                      THEN /\ best' = Some([quality |-> mid, size |-> r.size])
                           /\ IF GoodEnough(r.size, max_size)
                              THEN /\ epc' = "match"
                                   /\ UNCHANGED <<low, high, outcome>>
                              ELSE \E n \in U8(NextLow(mid)) :
                                     IF n.panic
                                     THEN Panic /\ UNCHANGED <<low, high>>
                                     ELSE /\ low' = n.val
                                          /\ UNCHANGED <<high, epc, outcome>>
                      ELSE /\ \E n \in U8(NextHigh(mid)) :
                                IF n.panic
                                THEN Panic /\ UNCHANGED <<low, high>>
                                ELSE /\ high' = n.val
                                     /\ UNCHANGED <<low, epc, outcome>>
                           /\ UNCHANGED best
              /\ UNCHANGED <<enc, max_size>>
    /\ UNCHANGED applyVars
    /\ UNCHANGED loopVars

\* The loop condition fails: control reaches `match best`.
SearchEnd ==
    /\ epc = "loop"
    /\ low > high
    /\ epc' = "match"
    /\ UNCHANGED <<enc, max_size, low, high, best, outcome, probes>>
    /\ UNCHANGED applyVars
    /\ UNCHANGED loopVars

\* Some((_quality, data)) => std::fs::write(path, data) ..., lines 63-69.
WriteBest ==
    /\ epc = "match"
    /\ best.some
    /\ \E written \in BOOLEAN :
         outcome' = IF written
                    THEN [kind |-> "Ok", quality |-> best.val.quality,
                          bytes |-> best.val.size]
                    ELSE [kind |-> "FileWrite"]
    /\ epc' = "done"
    /\ UNCHANGED <<enc, max_size, low, high, best, probes>>
    /\ UNCHANGED applyVars
    /\ UNCHANGED loopVars

\* None => encode at quality 10 and report it, lines 70-78.
ReportTooSmall ==
    /\ epc = "match"
    /\ ~best.some
    /\ \E r \in EncodeResults(enc, FloorQuality) :
         /\ probes' = Append(probes, Probe(FloorQuality, r))
         /\ outcome' = IF r.ok
                       THEN [kind |-> "CompressionTargetTooSmall",
                             target_kb |-> max_size \div 1024,
                             target_bytes |-> max_size,
                             min_kb |-> r.size \div 1024,
                             min_bytes |-> r.size]
                       ELSE [kind |-> "JpegEncoding"]
    /\ epc' = "done"
    /\ UNCHANGED <<enc, max_size, low, high, best>>
    /\ UNCHANGED applyVars
    /\ UNCHANGED loopVars

NextEnc ==
    \/ SearchStep
    \/ SearchEnd
    \/ WriteBest
    \/ ReportTooSmall

SpecEnc == InitEnc /\ [][NextEnc]_vars

(***************************************************************************)
(* Images (image.rs) and transforms (transforms.rs).                       *)
(***************************************************************************)
Pixel(r, g, b) == [r |-> r, g |-> g, b |-> b]

Black == Pixel(0, 0, 0)

Image(w, h, px) == [width |-> w, height |-> h, pixels |-> px]

\* Result<Image, TransformError>, or a panic raised inside apply.
Ok(img) == [kind |-> "Ok", image |-> img]

OutOfBounds == [kind |-> "OutOfBounds"]

Fault(why) == [kind |-> "Panic", why |-> why]

(***************************************************************************)
(* i32 arithmetic on the command arguments.  A result outside the i32      *)
(* range panics when the build checks overflow (chk) and wraps otherwise.  *)
(* The operators never form a number outside the i32 range themselves.     *)
(***************************************************************************)
I32Max == 2147483647

I32Min == -I32Max - 1

AddOverflows(a, b) ==
    \/ b > 0 /\ a > I32Max - b
    \/ b < 0 /\ a < I32Min - b

AddWrapped(a, b) ==
    IF ~AddOverflows(a, b) THEN a + b
    ELSE IF b > 0 THEN (a - I32Max - 1) + (b - I32Max - 1)
    ELSE (a + I32Max + 1) + (b + I32Max + 1)

I32Add(a, b, chk) ==
    [ok |-> ~(chk /\ AddOverflows(a, b)), v |-> AddWrapped(a, b)]

\* a * k for k >= 0, by repeated addition: [ovf, v].
RECURSIVE TimesNat(_, _)
TimesNat(a, k) ==
    IF k = 0 THEN [ovf |-> FALSE, v |-> 0]
    ELSE LET r == TimesNat(a, k - 1) IN
         [ovf |-> r.ovf \/ AddOverflows(r.v, a), v |-> AddWrapped(r.v, a)]

Abs(a) == IF a < 0 THEN -a ELSE a

\* a * b where one factor is small (a width, a height, a coordinate), or is
\* i32::MIN.
I32Mul(a, b, chk) ==
    IF a = 0 \/ b = 0 THEN [ok |-> TRUE, v |-> 0]
    ELSE IF a = I32Min \/ b = I32Min
    THEN LET other == IF a = I32Min THEN b ELSE a IN
         [ok |-> ~(chk /\ other # 1), v |-> IF other % 2 = 0 THEN 0 ELSE I32Min]
    ELSE LET big == IF Abs(a) >= Abs(b) THEN a ELSE b
             small == IF Abs(a) >= Abs(b) THEN b ELSE a
             r == IF small >= 0 THEN TimesNat(big, small) ELSE TimesNat(-big, -small)
         IN  [ok |-> ~(chk /\ r.ovf), v |-> r.v]

(***************************************************************************)
(* f32 arithmetic (IEEE 754 binary32, round to nearest, ties to even).     *)
(* A value is NaN, an infinity, or finite: sign s, mantissa m and exponent *)
(* e stand for s * m * 2^e, with m = 0 or 2^23 <= m < 2^24.  The values    *)
(* the transforms reach lie far inside the exponent range, so neither      *)
(* overflow to infinity nor subnormal results are modelled.  Products of   *)
(* two mantissas are kept as two 24-bit halves: no intermediate number     *)
(* reaches 2^31.                                                           *)
(***************************************************************************)
Two23 == 8388608

Two24 == 16777216

Two12 == 4096

NaN == [c |-> "nan"]

Inf(s) == [c |-> "inf", s |-> s]

Fin(s, m, e) == [c |-> "fin", s |-> s, m |-> m, e |-> e]

Zero(s) == Fin(s, 0, 0)

One == Fin(1, Two23, -23)

RECURSIVE BitLen(_)
BitLen(n) == IF n = 0 THEN 0 ELSE 1 + BitLen(n \div 2)

\* s * m * 2^e for 0 < m < 2^24, exactly.
Normal(s, m, e) ==
    LET k == 24 - BitLen(m) IN Fin(s, m * 2^k, e - k)

\* s * (hi * 2^24 + lo) * 2^e for hi, lo < 2^24, rounded to 24 bits.
Rounded(s, hi, lo, e) ==
    IF hi = 0 THEN (IF lo = 0 THEN Zero(s) ELSE Normal(s, lo, e))
    ELSE LET L == BitLen(hi)
             q == hi * 2^(24 - L) + lo \div 2^L
             rem == lo % 2^L
             half == 2^(L - 1)
             up == rem > half \/ (rem = half /\ q % 2 = 1)
             m == IF up THEN q + 1 ELSE q
         IN  IF m = Two24 THEN Fin(s, Two23, e + L + 1) ELSE Fin(s, m, e + L)

\* `n as f32` for an i32 n.
F32FromInt(n) ==
    IF n = 0 THEN Zero(1)
    ELSE IF n = I32Min THEN Fin(-1, Two23, 8)
    ELSE LET a == IF n < 0 THEN -n ELSE n IN
         Rounded(IF n < 0 THEN -1 ELSE 1, a \div Two24, a % Two24, 0)

IsZero(a) == a.c = "fin" /\ a.m = 0

\* The exact product of two mantissas, as [hi, lo] with hi * 2^24 + lo.
MantissaProduct(a, b) ==
    LET a1 == a \div Two12
        a0 == a % Two12
        b1 == b \div Two12
        b0 == b % Two12
        mid == a1 * b0 + a0 * b1
        low32 == (mid % Two12) * Two12 + a0 * b0
    IN  [hi |-> a1 * b1 + mid \div Two12 + low32 \div Two24, lo |-> low32 % Two24]

F32Mul(a, b) ==
    IF a.c = "nan" \/ b.c = "nan" THEN NaN
    ELSE IF a.c = "inf" \/ b.c = "inf"
    THEN (IF IsZero(a) \/ IsZero(b) THEN NaN ELSE Inf(a.s * b.s))
    ELSE IF a.m = 0 \/ b.m = 0 THEN Zero(a.s * b.s)
    ELSE LET p == MantissaProduct(a.m, b.m) IN
         Rounded(a.s * b.s, p.hi, p.lo, a.e + b.e)

\* Long division: k more quotient bits of r / d, with r < d.  [q, r].
RECURSIVE DivBits(_, _, _, _)
DivBits(q, r, d, k) ==
    IF k = 0 THEN [q |-> q, r |-> r]
    ELSE IF 2 * r >= d THEN DivBits(2 * q + 1, 2 * r - d, d, k - 1)
    ELSE DivBits(2 * q, 2 * r, d, k - 1)

F32Div(a, b) ==
    IF a.c = "nan" \/ b.c = "nan" THEN NaN
    ELSE IF a.c = "inf" THEN (IF b.c = "inf" THEN NaN ELSE Inf(a.s * b.s))
    ELSE IF b.c = "inf" THEN Zero(a.s * b.s)
    ELSE IF b.m = 0 THEN (IF a.m = 0 THEN NaN ELSE Inf(a.s * b.s))
    ELSE IF a.m = 0 THEN Zero(a.s * b.s)
    ELSE LET big == a.m >= b.m
             k == IF big THEN 23 ELSE 24
             d == IF big THEN DivBits(1, a.m - b.m, b.m, k)
                  ELSE DivBits(0, a.m, b.m, k)
             up == 2 * d.r > b.m \/ (2 * d.r = b.m /\ d.q % 2 = 1)
             m == IF up THEN d.q + 1 ELSE d.q
         IN  IF m = Two24 THEN Fin(a.s * b.s, Two23, a.e - b.e - k + 1)
             ELSE Fin(a.s * b.s, m, a.e - b.e - k)

\* a < b for two values that are not NaN.
F32Less(a, b) ==
    LET neg(x) == x.s = -1 /\ ~IsZero(x)
        pos(x) == x.s = 1 /\ ~IsZero(x)
        \* |x| < |y| for finite non-zero or infinite x, y
        smaller(x, y) ==
            IF x.c = "inf" THEN FALSE
            ELSE IF y.c = "inf" THEN TRUE
            ELSE x.e < y.e \/ (x.e = y.e /\ x.m < y.m)
    IN  IF IsZero(a) THEN pos(b)
        ELSE IF IsZero(b) THEN neg(a)
        ELSE IF neg(a) /\ pos(b) THEN TRUE
        ELSE IF pos(a) /\ neg(b) THEN FALSE
        ELSE IF pos(a) THEN smaller(a, b)
        ELSE smaller(b, a)

\* f32::min: a NaN operand is ignored.
F32Min(a, b) ==
    IF a.c = "nan" THEN b
    ELSE IF b.c = "nan" THEN a
    ELSE IF F32Less(b, a) THEN b ELSE a

\* `x as i32`: truncates toward zero, saturates, NaN gives 0.
F32ToI32(a) ==
    IF a.c = "nan" THEN 0
    ELSE IF a.c = "inf" THEN (IF a.s = 1 THEN I32Max ELSE I32Min)
    ELSE IF a.m = 0 THEN 0
    ELSE IF a.e >= 8 THEN (IF a.s = 1 THEN I32Max ELSE I32Min)
    ELSE IF a.e >= 0 THEN a.s * (a.m * 2^a.e)
    ELSE IF a.e <= -24 THEN 0
    ELSE a.s * (a.m \div 2^(-a.e))

F32Neg(a) ==
    IF a.c = "nan" THEN a
    ELSE IF a.c = "inf" THEN Inf(-a.s)
    ELSE Fin(-a.s, a.m, a.e)

\* a + b for finite non-zero a, b with a.e >= b.e.
AddAligned(a, b) ==
    LET d == a.e - b.e IN
    IF d >= 25
    THEN \* b is below half a unit in the last place of a
         IF a.s # b.s /\ a.m = Two23 /\ d = 25 /\ b.m > Two23
         THEN Fin(a.s, Two24 - 1, a.e - 1)
         ELSE a
    ELSE LET hiA == a.m \div 2^(24 - d)
             loA == (a.m % 2^(24 - d)) * 2^d
         IN  IF a.s = b.s
             THEN LET lo == loA + b.m IN
                  Rounded(a.s, hiA + lo \div Two24, lo % Two24, b.e)
             ELSE IF hiA = 0 /\ loA < b.m
             THEN Rounded(b.s, 0, b.m - loA, b.e)
             ELSE IF hiA = 0 /\ loA = b.m
             THEN Zero(1)
             ELSE IF loA >= b.m
             THEN Rounded(a.s, hiA, loA - b.m, b.e)
             ELSE Rounded(a.s, hiA - 1, loA + Two24 - b.m, b.e)

F32Add(a, b) ==
    IF a.c = "nan" \/ b.c = "nan" THEN NaN
    ELSE IF a.c = "inf"
    THEN (IF b.c = "inf" /\ b.s # a.s THEN NaN ELSE a)
    ELSE IF b.c = "inf" THEN b
    ELSE IF a.m = 0 /\ b.m = 0 THEN Zero(IF a.s = -1 /\ b.s = -1 THEN -1 ELSE 1)
    ELSE IF a.m = 0 THEN b
    ELSE IF b.m = 0 THEN a
    ELSE IF a.e >= b.e THEN AddAligned(a, b)
    ELSE AddAligned(b, a)

F32Sub(a, b) == F32Add(a, F32Neg(b))

\* f32::clamp(lo, hi): a NaN stays a NaN.
F32Clamp(a, lo, hi) ==
    IF a.c = "nan" THEN a
    ELSE IF F32Less(a, lo) THEN lo
    ELSE IF F32Less(hi, a) THEN hi
    ELSE a

\* `x as u8`: truncates toward zero, saturates, NaN gives 0.
F32ToU8(a) ==
    LET v == F32ToI32(a) IN IF v < 0 THEN 0 ELSE IF v > 255 THEN 255 ELSE v

\* The f32 nearest the decimal n / d, as the parser of a decimal returns it.
F32Ratio(n, d) == F32Div(F32FromInt(n), F32FromInt(d))

\* `0..n` of Rust: empty when n <= 0.
Below(n) == 0..(n - 1)

MaxOf(S) == CHOOSE k \in S : \A j \in S : j <= k

\* Is `image.pixels[idx as usize]` inside the vector?  A negative i32 casts
\* to a usize beyond any length.
InVec(img, idx) == idx >= 0 /\ idx < Len(img.pixels)

\* Crop::apply, lines 73: the source index of destination (dx, dy).
CropSrcIdx(img, x, y, dx, dy, chk) ==
    LET row == I32Add(y, dy, chk)
        off == I32Mul(row.v, img.width, chk)
        col == I32Add(x, dx, chk)
        idx == I32Add(off.v, col.v, chk)
    IN  [ok |-> row.ok /\ off.ok /\ col.ok /\ idx.ok, v |-> idx.v]

\* The bounds test of Crop::apply, line 65.
CropOutOfBounds(sum, limit) == sum > limit

\* Crop::apply, lines 64-83.
CropApply(img, x, y, w, h, chk) ==
    LET sx == I32Add(x, w, chk)
        sy == I32Add(y, h, chk)
        cap == I32Mul(w, h, chk)
        count == IF w > 0 /\ h > 0 THEN w * h ELSE 0
        src(k) == CropSrcIdx(img, x, y, (k - 1) % w, (k - 1) \div w, chk)
    IN  IF ~sx.ok THEN Fault("overflow")
        ELSE IF CropOutOfBounds(sx.v, img.width) THEN OutOfBounds
        ELSE IF ~sy.ok THEN Fault("overflow")
        ELSE IF CropOutOfBounds(sy.v, img.height) THEN OutOfBounds
        ELSE IF ~cap.ok THEN Fault("overflow")
        ELSE IF cap.v < 0 THEN Fault("capacity")
        ELSE IF \E k \in 1..count : ~src(k).ok THEN Fault("overflow")
        ELSE IF \E k \in 1..count : ~InVec(img, src(k).v) THEN Fault("index")
        ELSE Ok(Image(w, h, [k \in 1..count |-> img.pixels[src(k).v + 1]]))

(***************************************************************************)
(* The loop shape shared by Flip and Rotate:                               *)
(*     let mut pixels = vec![Pixel::new(0, 0, 0); n as usize];             *)
(*     for y in 0..image.height { for x in 0..image.width {                *)
(*         pixels[dst_idx] = image.pixels[src_idx]; } }                    *)
(* Iteration k (from 1) visits x = (k-1) % width, y = (k-1) / width; a     *)
(* later iteration overwrites an earlier one.                              *)
(***************************************************************************)
\* The iterations of `for y in 0..image.height { for x in 0..image.width`.
LoopCount(img) == IF img.width > 0 /\ img.height > 0 THEN img.width * img.height ELSE 0

LoopX(img, k) == (k - 1) % img.width

LoopY(img, k) == (k - 1) \div img.width

\* dst[k] is the dst_idx of iteration k; src_idx is y * width + x.
Remap(img, w, h, n, dst) ==
    LET count == LoopCount(img)
        src(k) == LoopY(img, k) * img.width + LoopX(img, k)
    IN  IF n < 0 THEN Fault("capacity")
        ELSE IF \E k \in 1..count : ~InVec(img, src(k)) \/ dst[k] \notin Below(n)
        THEN Fault("index")
        ELSE Ok(Image(w, h,
                 [i \in 1..n |->
                    LET hits == {k \in 1..count : dst[k] = i - 1} IN
                    IF hits = {} THEN Black
                    ELSE img.pixels[src(MaxOf(hits)) + 1]]))

FlipHorizontalShifts(img, x, y) == y * img.width + ((x + 1) % img.width)

\* Flip::apply, lines 107-116: dst_x = image.width - 1 - x.
FlipHorizontalDst(img, x, y) == y * img.width + (img.width - 1 - x)

\* Flip::apply, lines 117-126: dst_y = image.height - 1 - y.
FlipVerticalDst(img, x, y) == (img.height - 1 - y) * img.width + x

\* Flip::apply, lines 103-134.
FlipApply(img, axis) ==
    LET dst == [k \in 1..LoopCount(img) |->
                  IF axis = "Horizontal"
                  THEN FlipHorizontalDst(img, LoopX(img, k), LoopY(img, k))
                  ELSE FlipVerticalDst(img, LoopX(img, k), LoopY(img, k))]
    IN  Remap(img, img.width, img.height, img.width * img.height, dst)

RotateDstWrongSide(img, angle, x, y) ==
    CASE angle = 90  -> x * img.height + (img.width - 1 - y)
      [] angle = 180 -> (img.height - 1 - y) * img.width + (img.width - 1 - x)
      [] angle = 270 -> (img.width - 1 - x) * img.height + y

RotateDstTransposes(img, angle, x, y) ==
    CASE angle = 90  -> x * img.height + (img.height - 1 - y)
      [] angle = 180 -> (img.height - 1 - y) * img.width + (img.width - 1 - x)
      [] angle = 270 -> x * img.height + y

\* Rotate::apply, lines 164-173, 175-185, 186-196.
RotateDst(img, angle, x, y) ==
    CASE angle = 90  -> x * img.height + (img.height - 1 - y)
      [] angle = 180 -> (img.height - 1 - y) * img.width + (img.width - 1 - x)
      [] angle = 270 -> (img.width - 1 - x) * img.height + y

\* Rotate::apply, lines 155-204.
RotateApply(img, angle) ==
    LET w == IF angle = 180 THEN img.width ELSE img.height
        h == IF angle = 180 THEN img.height ELSE img.width
        dst == [k \in 1..LoopCount(img) |->
                  RotateDst(img, angle, LoopX(img, k), LoopY(img, k))]
    IN  Remap(img, w, h, w * h, dst)

\* Invert::apply, lines 266-278.
InvertApply(img) ==
    Ok(Image(img.width, img.height,
             [i \in 1..Len(img.pixels) |->
                LET p == img.pixels[i] IN Pixel(255 - p.r, 255 - p.g, 255 - p.b)]))

\* Grayscale::apply, lines 290-305.
GrayscaleApply(img) ==
    Ok(Image(img.width, img.height,
             [i \in 1..Len(img.pixels) |->
                LET p == img.pixels[i]
                    gray == (p.r + p.g + p.b) \div 3
                IN  Pixel(gray, gray, gray)]))

\* Fit::apply, lines 232-233: the source index sampled for (dst_x, dst_y).
FitSrcIdx(img, x_ratio, y_ratio, dst_x, dst_y, chk) ==
    LET src_x == F32ToI32(F32Mul(F32FromInt(dst_x), x_ratio))
        src_y == F32ToI32(F32Mul(F32FromInt(dst_y), y_ratio))
        off == I32Mul(src_y, img.width, chk)
        idx == I32Add(off.v, src_x, chk)
    IN  [ok |-> off.ok /\ idx.ok, v |-> idx.v]

\* Fit::apply, lines 222-252.
FitApply(img, max_width, max_height, chk) ==
    LET scale_x == F32Div(F32FromInt(max_width), F32FromInt(img.width))
        scale_y == F32Div(F32FromInt(max_height), F32FromInt(img.height))
        scale == F32Min(F32Min(scale_x, scale_y), One)
        new_width == F32ToI32(F32Mul(F32FromInt(img.width), scale))
        new_height == F32ToI32(F32Mul(F32FromInt(img.height), scale))
        n == I32Mul(new_width, new_height, chk)
        x_ratio == F32Div(F32FromInt(img.width), F32FromInt(new_width))
        y_ratio == F32Div(F32FromInt(img.height), F32FromInt(new_height))
        count == IF new_width > 0 /\ new_height > 0 THEN new_width * new_height ELSE 0
        src(k) == FitSrcIdx(img, x_ratio, y_ratio,
                            (k - 1) % new_width, (k - 1) \div new_width, chk)
    IN  IF ~n.ok THEN Fault("overflow")
        ELSE IF n.v < 0 THEN Fault("capacity")
        ELSE IF \E k \in 1..count : ~src(k).ok THEN Fault("overflow")
        ELSE IF \E k \in 1..count : ~InVec(img, src(k).v) THEN Fault("index")
        ELSE Ok(Image(new_width, new_height,
                      [k \in 1..n.v |-> IF k <= count THEN img.pixels[src(k).v + 1]
                                        ELSE Black]))

\* Pixel::from_f32 of image.rs, lines 27-33, for one channel.
Channel(v) == F32ToU8(F32Clamp(v, Zero(1), F32FromInt(255)))

PixelFromF32(r, g, b) == Pixel(Channel(r), Channel(g), Channel(b))

\* The `.pixels.iter().map(f).collect()` of the per-pixel transforms, given
\* the mapped pixels.
MapPixels(img, mapped) == Ok(Image(img.width, img.height, mapped))

\* Brightness::apply, lines 319-337.
BrightnessApply(img, factor) ==
    LET f(p) == PixelFromF32(F32Mul(F32FromInt(p.r), factor),
                             F32Mul(F32FromInt(p.g), factor),
                             F32Mul(F32FromInt(p.b), factor))
    IN  MapPixels(img, [i \in 1..Len(img.pixels) |-> f(img.pixels[i])])

\* Contrast::apply, lines 351-369.
ContrastApply(img, factor) ==
    LET mid == F32FromInt(128)
        c(v) == F32Add(F32Mul(F32Sub(F32FromInt(v), mid), factor), mid)
        f(p) == PixelFromF32(c(p.r), c(p.g), c(p.b))
    IN  MapPixels(img, [i \in 1..Len(img.pixels) |-> f(img.pixels[i])])

\* Tint::apply, lines 384-405.
TintApply(img, color, intensity) ==
    LET blend(src, tint) ==
            F32Add(F32Mul(F32FromInt(src), F32Sub(One, intensity)),
                   F32Mul(F32FromInt(tint), intensity))
        f(p) == PixelFromF32(blend(p.r, color.r), blend(p.g, color.g), blend(p.b, color.b))
    IN  MapPixels(img, [i \in 1..Len(img.pixels) |-> f(img.pixels[i])])

\* Colorize::apply, lines 419-439.
ColorizeApply(img, color) ==
    LET f(p) ==
            LET gray == (p.r + p.g + p.b) \div 3
                factor == F32Div(F32FromInt(gray), F32FromInt(255))
            IN  PixelFromF32(F32Mul(F32FromInt(color.r), factor),
                             F32Mul(F32FromInt(color.g), factor),
                             F32Mul(F32FromInt(color.b), factor))
    IN  MapPixels(img, [i \in 1..Len(img.pixels) |-> f(img.pixels[i])])

\* f32::EPSILON, 2^-23.
Epsilon == Fin(1, Two23, -46)

\* `values.iter().sum()`: added left to right from 0.0.
RECURSIVE SumF32(_, _, _)
SumF32(values, i, acc) ==
    IF i > Len(values) THEN acc ELSE SumF32(values, i + 1, F32Add(acc, values[i]))

\* Kernel::new of integer weights, lines 479-484.
Kernel(size, weights) == [size |-> size, values |-> [i \in 1..Len(weights) |-> F32FromInt(weights[i])]]

\* Kernel::normalize, lines 486-494.
Normalized(kernel) ==
    LET sum == SumF32(kernel.values, 1, Zero(1)) IN
    IF F32Less(Epsilon, Fin(1, sum.m, sum.e))
    THEN [kernel EXCEPT !.values = [i \in 1..Len(kernel.values) |-> F32Div(kernel.values[i], sum)]]
    ELSE kernel

\* Kernel::get, lines 501-506: the index into values, from 1.
KernelIdx(kernel, dx, dy) ==
    LET center == kernel.size \div 2 IN (center + dy) * kernel.size + (center + dx) + 1

\* i32::clamp(lo, hi) panics when lo > hi.
ClampI32(v, lo, hi) ==
    IF lo > hi THEN [ok |-> FALSE, v |-> v]
    ELSE [ok |-> TRUE, v |-> IF v < lo THEN lo ELSE IF v > hi THEN hi ELSE v]

\* Sampling that wraps around the buffer instead of clamping to its edge.
WindowIdxWraps(img, center_x, center_y, dx, dy) ==
    LET x == (center_x + dx) % img.width
        y == (center_y + dy) % img.height
    IN  [ok |-> TRUE, x |-> x, y |-> y, v |-> y * img.width + x]

\* KernelWindow::get, lines 516-520: the source index sampled at (dx, dy).
WindowIdx(img, center_x, center_y, dx, dy) ==
    LET x == ClampI32(center_x + dx, 0, img.width - 1)
        y == ClampI32(center_y + dy, 0, img.height - 1)
    IN  [ok |-> x.ok /\ y.ok, x |-> x.v, y |-> y.v, v |-> y.v * img.width + x.v]

\* The (dx, dy) of apply_kernel's loops, lines 529-530, in order.
WindowOffsets(kernel) ==
    LET offset == kernel.size \div 2
        side == 2 * offset + 1
    IN  [i \in 1..(side * side) |-> [dx |-> ((i - 1) % side) - offset,
                                      dy |-> ((i - 1) \div side) - offset]]

\* The accumulation of apply_kernel, lines 531-537, for one channel.
RECURSIVE Accumulate(_, _, _, _)
Accumulate(samples, weights, i, acc) ==
    IF i > Len(samples) THEN acc
    ELSE Accumulate(samples, weights, i + 1,
                    F32Add(acc, F32Mul(F32FromInt(samples[i]), weights[i])))

\* KernelWindow::apply_kernel, lines 522-541, on a window inside the vector.
ApplyKernel(img, center_x, center_y, kernel) ==
    LET offs == WindowOffsets(kernel)
        px(i) == img.pixels[WindowIdx(img, center_x, center_y, offs[i].dx, offs[i].dy).v + 1]
        k == [i \in 1..Len(offs) |-> kernel.values[KernelIdx(kernel, offs[i].dx, offs[i].dy)]]
        ch(c) == Accumulate([i \in 1..Len(offs) |-> px(i)[c]], k, 1, Zero(1))
    IN  PixelFromF32(ch("r"), ch("g"), ch("b"))

\* The blanket Transformation impl of the kernel filters, lines 449-470.
KernelApply(img, kernel) ==
    LET W == img.width
        n == W * img.height
        count == IF W > 0 /\ img.height > 0 THEN n ELSE 0
        offs == WindowOffsets(kernel)
        win(k, i) == WindowIdx(img, (k - 1) % W, (k - 1) \div W, offs[i].dx, offs[i].dy)
    IN  IF n < 0 THEN Fault("capacity")
        ELSE IF \E k \in 1..count, i \in 1..Len(offs) : ~win(k, i).ok THEN Fault("clamp")
        ELSE IF \E k \in 1..count, i \in 1..Len(offs) : ~InVec(img, win(k, i).v)
        THEN Fault("index")
        ELSE Ok(Image(W, img.height,
                      [k \in 1..n |-> IF k <= count
                                      THEN ApplyKernel(img, (k - 1) % W, (k - 1) \div W, kernel)
                                      ELSE Black]))

\* GaussianBlur::new, lines 549-556.
GaussianBlur == Normalized(Kernel(3, <<1, 2, 1, 2, 4, 2, 1, 2, 1>>))

\* BoxBlur::new (used by main.rs line 239): nine equal weights, normalized.
BoxBlur == Normalized(Kernel(3, <<1, 1, 1, 1, 1, 1, 1, 1, 1>>))

\* Sharpen::new, lines 570-577.
Sharpen == Kernel(3, <<0, -1, 0, -1, 5, -1, 0, -1, 0>>)

\* EdgeDetect::new, lines 591-598.
EdgeDetect == Kernel(3, <<-1, -1, -1, -1, 8, -1, -1, -1, -1>>)

\* Emboss::new, lines 612-619.
Emboss == Kernel(3, <<-2, -1, 0, -1, 1, 1, 0, 1, 2>>)

KernelOf(name) ==
    CASE name = "GaussianBlur" -> GaussianBlur
      [] name = "BoxBlur"      -> BoxBlur
      [] name = "Sharpen"      -> Sharpen
      [] name = "EdgeDetect"   -> EdgeDetect
      [] name = "Emboss"       -> Emboss

\* Transformation::apply, dispatched on the struct.
Apply(op, img, chk) ==
    CASE op.t = "Crop"       -> CropApply(img, op.x, op.y, op.w, op.h, chk)
      [] op.t = "Flip"       -> FlipApply(img, op.axis)
      [] op.t = "Rotate"     -> RotateApply(img, op.angle)
      [] op.t = "Fit"        -> FitApply(img, op.max_width, op.max_height, chk)
      [] op.t = "Invert"     -> InvertApply(img)
      [] op.t = "Grayscale"  -> GrayscaleApply(img)
      [] op.t = "Brightness" -> BrightnessApply(img, op.factor)
      [] op.t = "Contrast"   -> ContrastApply(img, op.factor)
      [] op.t = "Tint"       -> TintApply(img, op.color, op.intensity)
      [] op.t = "Colorize"   -> ColorizeApply(img, op.color)
      [] op.t = "Kernel"     -> KernelApply(img, KernelOf(op.kernel))

(***************************************************************************)
(* Inputs.  A test buffer is wide x high with pairwise distinct pixels, or *)
(* with one colour throughout.                                             *)
(***************************************************************************)
MaxW == 3

MaxH == 3

MaxRun == 4

TestPixel(i) == Pixel((40 * i) % 256, (255 - 30 * i) % 256, (17 * i + 3) % 256)

Red == Pixel(255, 0, 0)

TestImage(w, h, pattern) ==
    Image(w, h, [i \in 1..(w * h) |-> IF pattern = "distinct" THEN TestPixel(i) ELSE Red])

\* The width of a two-row buffer, wide enough for f32 rounding to show.
StripWidth == 22

TestImages ==
    {TestImage(w, h, pattern) : w \in 0..MaxW, h \in 0..MaxH, pattern \in {"distinct", "solid"}}
    \cup {TestImage(StripWidth, 2, pattern) : pattern \in {"distinct", "solid"}}

\* x and y of a crop: around the buffer, and the largest i32.
CropOrigins(limit) == (-1..limit) \cup {I32Max}

\* width and height of a crop: from negative to one past the buffer.
CropSizes(limit) == -1..(limit + 1)

\* max_width and max_height of a fit: negative, zero, below and above the buffer.
FitLimits(limit) == -2..(limit + 1)

\* Factors and intensities a decimal can be parsed to: 0.3, 0.5, 1.0, 1.5, -1.0, NaN.
Factors == {F32Ratio(3, 10), F32Ratio(1, 2), One, F32Ratio(3, 2), F32FromInt(-1), NaN}

Colors == {Red, Pixel(18, 52, 86)}

KernelNames == {"GaussianBlur", "BoxBlur", "Sharpen", "EdgeDetect", "Emboss"}

Transforms(img) ==
    {[t |-> "Crop", x |-> x, y |-> y, w |-> w, h |-> h] :
        x \in CropOrigins(img.width), y \in CropOrigins(img.height),
        w \in CropSizes(img.width), h \in CropSizes(img.height)}
    \cup {[t |-> "Flip", axis |-> a] : a \in {"Horizontal", "Vertical"}}
    \cup {[t |-> "Rotate", angle |-> a] : a \in {90, 180, 270}}
    \cup {[t |-> "Fit", max_width |-> mw, max_height |-> mh] :
              mw \in FitLimits(img.width), mh \in FitLimits(img.height)}
    \cup {[t |-> "Invert"], [t |-> "Grayscale"]}
    \cup {[t |-> c, factor |-> f] : c \in {"Brightness", "Contrast"}, f \in Factors}
    \cup {[t |-> "Tint", color |-> c, intensity |-> f] : c \in Colors, f \in Factors}
    \cup {[t |-> "Colorize", color |-> c] : c \in Colors}
    \cup {[t |-> "Kernel", kernel |-> k] : k \in KernelNames}

InitApply ==
    /\ t_src \in TestImages
    /\ t_op \in Transforms(t_src)
    /\ t_n = 0
    /\ t_res = [kind |-> "none"]
    /\ enc = [mono |-> FALSE, c1 |-> 0, c2 |-> 0]
    /\ max_size = 0
    /\ low = 1
    /\ high = 100
    /\ best = None
    /\ epc = "idle"
    /\ outcome = [kind |-> "idle"]
    /\ probes = <<>>
    /\ LoopIdle

\* The buffer the next apply is given: the first input, then each result.
ApplyInput == IF t_n = 0 THEN t_src ELSE t_res.image

\* transform.apply(image), applied to the previous result.
ApplyOnce ==
    /\ t_n < MaxRun
    /\ t_n = 0 \/ t_res.kind = "Ok"
    /\ \E chk \in BOOLEAN : t_res' = Apply(t_op, ApplyInput, chk)
    /\ t_n' = t_n + 1
    /\ UNCHANGED <<t_src, t_op>>
    /\ UNCHANGED encVars
    /\ UNCHANGED loopVars

NextApply == ApplyOnce

SpecApply == InitApply /\ [][NextApply]_vars

(***************************************************************************)
(* The command loop of main.rs.  A command line is its first word and its  *)
(* arguments; an argument list is [given |-> "missing"] (too few words),   *)
(* [given |-> "bad"] (a word that does not parse) or [given |-> "ok", ...] *)
(* with the parsed values.  A cmd_ function returns Some(result) as        *)
(* [kind |-> "Ok", image], or None after printing, as [kind |-> ...] with  *)
(* what it printed; a panic inside apply ends the process.                 *)
(***************************************************************************)
MaxCommands == 4

\* The width of the image a load returns, a single row of distinct pixels.
LoadSide == 2

Missing == [given |-> "missing"]

Unparsable == [given |-> "bad"]

\* cmd_load, lines 9-27: Image::load returns an image or an error.
LoadResults ==
    {Ok(TestImage(LoadSide, 1, "distinct")), [kind |-> "Error"], [kind |-> "Usage"]}

\* What a cmd_ function does before it calls apply: it prints and returns
\* None, as [kind |-> what it printed], or builds the transform, as Run(op).
Run(op) == [kind |-> "Run", op |-> op]

\* cmd_crop, lines 44-54.
CmdCrop(a) ==
    IF a.given = "missing" THEN [kind |-> "Usage"]
    ELSE IF a.given = "bad" THEN [kind |-> "Invalid number"]
    ELSE Run([t |-> "Crop", x |-> a.x, y |-> a.y, w |-> a.w, h |-> a.h])

\* cmd_flip, lines 66-80.
CmdFlip(a) ==
    IF a.given = "missing" THEN [kind |-> "Usage"]
    ELSE IF a.given = "bad" THEN [kind |-> "Invalid axis"]
    ELSE Run([t |-> "Flip", axis |-> a.axis])

\* cmd_rotate, lines 92-107.
CmdRotate(a) ==
    IF a.given = "missing" THEN [kind |-> "Usage"]
    ELSE IF a.given = "bad" THEN [kind |-> "Invalid angle"]
    ELSE Run([t |-> "Rotate", angle |-> a.angle])

\* cmd_fit, lines 119-127.
CmdFit(a) ==
    IF a.given = "missing" THEN [kind |-> "Usage"]
    ELSE IF a.given = "bad" THEN [kind |-> "Invalid number"]
    ELSE Run([t |-> "Fit", max_width |-> a.max_width, max_height |-> a.max_height])

\* cmd_brightness and cmd_contrast, lines 163-169 and 181-187.
CmdFactor(t, a) ==
    IF a.given = "missing" THEN [kind |-> "Usage"]
    ELSE IF a.given = "bad" THEN [kind |-> "Invalid number"]
    ELSE Run([t |-> t, factor |-> a.factor])

\* cmd_tint, lines 199-208: parse_hex_color fails without a message, and the
\* command returns None having printed nothing.
CmdTint(a) ==
    IF a.given = "missing" THEN [kind |-> "Usage"]
    ELSE IF a.given = "bad color" THEN [kind |-> "Nothing printed"]
    ELSE IF a.given = "bad" THEN [kind |-> "Invalid number"]
    ELSE Run([t |-> "Tint", color |-> a.color, intensity |-> a.intensity])

\* cmd_colorize, lines 220-227.
CmdColorize(a) ==
    IF a.given = "missing" THEN [kind |-> "Usage"]
    ELSE IF a.given = "bad color" THEN [kind |-> "Nothing printed"]
    ELSE Run([t |-> "Colorize", color |-> a.color])

\* The cmd_ function of a transform command word.
Cmd(cmd, a) ==
    CASE cmd = "crop"       -> CmdCrop(a)
      [] cmd = "flip"       -> CmdFlip(a)
      [] cmd = "rotate"     -> CmdRotate(a)
      [] cmd = "fit"        -> CmdFit(a)
      [] cmd = "invert"     -> Run([t |-> "Invert"])
      [] cmd = "grayscale"  -> Run([t |-> "Grayscale"])
      [] cmd = "brightness" -> CmdFactor("Brightness", a)
      [] cmd = "contrast"   -> CmdFactor("Contrast", a)
      [] cmd = "tint"       -> CmdTint(a)
      [] cmd = "colorize"   -> CmdColorize(a)
      [] cmd = "blur"       -> Run([t |-> "Kernel", kernel |-> "GaussianBlur"])
      [] cmd = "boxblur"    -> Run([t |-> "Kernel", kernel |-> "BoxBlur"])

\* The builds a transform can tell apart: with or without overflow checks, for
\* the two transforms that compute with their i32 arguments (Crop::apply lines
\* 65-73, Fit::apply lines 221-253); the others never see the build profile.
Profiles(op) == IF op.t \in {"Crop", "Fit"} THEN BOOLEAN ELSE {TRUE}

\* The end of every cmd_ function:
\*     match transform.apply(image) {
\*         Ok(result) => Some(result),
\*         Err(e) => { println!("Error: {}", e); None } }
Applied(op, image, chk) ==
    LET res == Apply(op, image, chk) IN
    IF res.kind = "OutOfBounds" THEN [kind |-> "Error"] ELSE res

\* The crops typed at the prompt: the whole image, its first pixel, a rectangle
\* past the right edge, a negative origin, a negative width.
CropArgs(image) ==
    {[given |-> "ok", x |-> 0, y |-> 0, w |-> image.width, h |-> image.height],
     [given |-> "ok", x |-> 0, y |-> 0, w |-> 1, h |-> 1],
     [given |-> "ok", x |-> 1, y |-> 0, w |-> image.width, h |-> 1],
     [given |-> "ok", x |-> -1, y |-> 0, w |-> 1, h |-> 1],
     [given |-> "ok", x |-> 0, y |-> 0, w |-> -1, h |-> 0],
     Missing, Unparsable}

FlipArgs == {[given |-> "ok", axis |-> "Horizontal"], [given |-> "ok", axis |-> "Vertical"],
             Missing, Unparsable}

RotateArgs == {[given |-> "ok", angle |-> a] : a \in {90, 180, 270}} \cup {Missing, Unparsable}

FitArgs == {[given |-> "ok", max_width |-> 1, max_height |-> 1],
            [given |-> "ok", max_width |-> 1, max_height |-> 2],
            Missing, Unparsable}

FactorArgs == {[given |-> "ok", factor |-> F32Ratio(3, 2)], Missing, Unparsable}

TintArgs == {[given |-> "ok", color |-> Red, intensity |-> F32Ratio(1, 2)],
             Missing, Unparsable, [given |-> "bad color"]}

ColorizeArgs == {[given |-> "ok", color |-> Red], Missing, [given |-> "bad color"]}

NoArgs == {[given |-> "none"]}

TransformWords ==
    {"crop", "flip", "rotate", "fit", "invert", "grayscale", "brightness", "contrast",
     "tint", "colorize", "blur", "boxblur"}

\* The argument lists typed after a transform command word.
Args(cmd, image) ==
    CASE cmd = "crop"     -> CropArgs(image)
      [] cmd = "flip"     -> FlipArgs
      [] cmd = "rotate"   -> RotateArgs
      [] cmd = "fit"      -> FitArgs
      [] cmd \in {"brightness", "contrast"} -> FactorArgs
      [] cmd = "tint"     -> TintArgs
      [] cmd = "colorize" -> ColorizeArgs
      [] OTHER            -> NoArgs

\* One command has been read: the history of it.
Read(cmd, out) ==
    /\ last' = [cmd |-> cmd, out |-> out]
    /\ before_image' = current_image
    /\ n_cmd' = n_cmd + 1

\* The loop is at its prompt and reads a line.
Prompt == dpc = "prompt" /\ n_cmd < MaxCommands

\* A command that changes neither image and goes back to the prompt.
Continue(cmd, out) ==
    /\ Read(cmd, out)
    /\ UNCHANGED <<current_image, previous_image, dpc>>

\* parse_command, lines 296-299.
NoImageLoaded(cmd) ==
    /\ ~current_image.some
    /\ Continue(cmd, "No image loaded")

KeepResultTakesFirst(cmd, res) ==
    IF res.kind = "Ok"
    THEN /\ previous_image' = current_image
         /\ current_image' = Some(res.image)
         /\ UNCHANGED dpc
         /\ Read(cmd, "Ok")
    ELSE IF res.kind = "Panic"
    THEN /\ dpc' = "panicked"
         /\ UNCHANGED <<current_image, previous_image>>
         /\ Read(cmd, "Panic")
    ELSE /\ previous_image' = current_image
         /\ current_image' = None
         /\ UNCHANGED dpc
         /\ Read(cmd, res.kind)

\* The arms of parse_command, lines 310-381:
\*     if let Some(result) = cmd_x(..) {
\*         *previous_image = current_image.take();
\*         *current_image = Some(result); }
KeepResult(cmd, res) ==
    IF res.kind = "Ok"
    THEN /\ previous_image' = current_image
         /\ current_image' = Some(res.image)
         /\ UNCHANGED dpc
         /\ Read(cmd, "Ok")
    ELSE IF res.kind = "Panic"
    THEN /\ dpc' = "panicked"
         /\ UNCHANGED <<current_image, previous_image>>
         /\ Read(cmd, "Panic")
    ELSE Continue(cmd, res.kind)

\* parse_command, lines 269-271: an empty line.
EmptyLine ==
    /\ Prompt
    /\ Continue("", "")
    /\ UNCHANGED <<encVars, applyVars>>

\* parse_command, lines 274-276.
Exit ==
    /\ Prompt
    /\ dpc' = "exited"
    /\ Read("exit", "Break")
    /\ UNCHANGED <<current_image, previous_image>>
    /\ UNCHANGED <<encVars, applyVars>>

\* parse_command, lines 277-284.
Load ==
    /\ Prompt
    /\ \E res \in LoadResults :
          IF res.kind = "Ok"
          THEN /\ current_image' = Some(res.image)
               /\ previous_image' = None
               /\ UNCHANGED dpc
               /\ Read("load", "Ok")
          ELSE Continue("load", res.kind)
    /\ UNCHANGED <<encVars, applyVars>>

\* parse_command, lines 285-292.
Help ==
    /\ Prompt
    /\ Continue("help", "Available commands")
    /\ UNCHANGED <<encVars, applyVars>>

\* parse_command, line 302, and cmd_save, lines 29-41.  Image::save hands the
\* buffer to the codec, which writes it or returns an error; a buffer with a
\* negative dimension may also end in a panic inside the codec.
Save ==
    /\ Prompt
    /\ \/ NoImageLoaded("save")
       \/ /\ current_image.some
          /\ \/ \E out \in {"Usage", "Image saved", "Error"} : Continue("save", out)
             \/ /\ current_image.val.width < 0 \/ current_image.val.height < 0
                /\ dpc' = "panicked"
                /\ UNCHANGED <<current_image, previous_image>>
                /\ Read("save", "Panic")
    /\ UNCHANGED <<encVars, applyVars>>

UndoKeepsResult ==
    /\ previous_image.some
    /\ current_image' = previous_image
    /\ UNCHANGED previous_image

\* parse_command, lines 303-309: previous_image.take() leaves None behind.
UndoRestores ==
    /\ previous_image.some
    /\ current_image' = previous_image
    /\ previous_image' = None

UndoEmptyClearsCurrent ==
    /\ ~previous_image.some
    /\ current_image' = previous_image
    /\ UNCHANGED <<previous_image, dpc>>
    /\ Read("undo", "Nothing to undo")

\* parse_command, lines 306-308: the else branch of the take().
UndoNothing ==
    /\ ~previous_image.some
    /\ Continue("undo", "Nothing to undo")

\* parse_command, lines 303-309, after the "No image loaded" return of lines 296-299.
Undo ==
    /\ Prompt
    /\ \/ NoImageLoaded("undo")
       \/ /\ current_image.some
          /\ \/ /\ UndoRestores
                /\ UNCHANGED dpc
                /\ Read("undo", "Ok")
             \/ UndoNothing
    /\ UNCHANGED <<encVars, applyVars>>

\* parse_command, lines 310-381: the twelve transform arms.
Transform ==
    /\ Prompt
    /\ \E cmd \in TransformWords :
          \/ NoImageLoaded(cmd)
          \/ /\ current_image.some
             /\ \E a \in Args(cmd, current_image.val) :
                   LET parsed == Cmd(cmd, a) IN
                   IF parsed.kind = "Run"
                   THEN \E chk \in Profiles(parsed.op) :
                           KeepResult(cmd, Applied(parsed.op, current_image.val, chk))
                   ELSE Continue(cmd, parsed.kind)
    /\ UNCHANGED <<encVars, applyVars>>

\* parse_command, line 382: any other first word.
Unknown ==
    /\ Prompt
    /\ \/ NoImageLoaded("?")
       \/ /\ current_image.some
          /\ Continue("?", "Unknown command")
    /\ UNCHANGED <<encVars, applyVars>>

EncoderIdle ==
    /\ enc = [mono |-> FALSE, c1 |-> 0, c2 |-> 0]
    /\ max_size = 0
    /\ low = 1
    /\ high = 100
    /\ best = None
    /\ epc = "idle"
    /\ outcome = [kind |-> "idle"]
    /\ probes = <<>>

Init ==
    /\ LoopIdle
    /\ ApplyIdle
    /\ EncoderIdle

Next ==
    \/ EmptyLine
    \/ Exit
    \/ Load
    \/ Help
    \/ Save
    \/ Undo
    \/ Transform
    \/ Unknown

Spec == Init /\ [][Next]_vars

(***************************************************************************)
(* Claims about save_jpeg_compressed, checked under SpecEnc.               *)
(***************************************************************************)
\* The qualities of a monotone encoder whose encoding is within the budget.
FittingQualities == {q \in Qualities : MonoSize(enc, q) <= max_size}

Highest(S) == CHOOSE q \in S : \A p \in S : p <= q

HighestProbed == Highest({probes[i].quality : i \in 1..Len(probes)})

Chosen == best.val.quality

NonMonotoneSeen ==
    \E i, j \in 1..Len(probes) :
        probes[i].quality < probes[j].quality /\ probes[i].size > probes[j].size

\* C1: whenever save_jpeg_compressed returns Ok (it wrote the file), the bytes
\* written are the encoding produced by one of its encode calls and their
\* length is at most max_size, for every encoder, monotone or not.
C1_WrittenWithinBudget ==
    outcome.kind = "Ok" =>
        /\ outcome.bytes <= max_size
        /\ \E i \in 1..Len(probes) :
              /\ probes[i].ok
              /\ probes[i].quality = outcome.quality
              /\ probes[i].size = outcome.bytes

C1_Witness ==
    /\ outcome.kind = "Ok"
    /\ ~enc.mono
    /\ NonMonotoneSeen

C3_TooSmallWheneverFloorExceeds ==
    (enc.mono /\ epc = "done" /\ MonoSize(enc, FloorQuality) > max_size) =>
        /\ outcome.kind = "CompressionTargetTooSmall"
        /\ outcome.target_bytes = max_size
        /\ outcome.min_bytes = MonoSize(enc, FloorQuality)

\* C4 as claimed: for a monotone encoder and max_size >= the quality-100 size
\* the call succeeds, choosing quality 100 or the highest quality probed, whose
\* size is then >= 0.99 * max_size.
C4_SucceedsAtOrAboveFullSize ==
    (enc.mono /\ epc = "done" /\ MonoSize(enc, MaxQuality) <= max_size) =>
        /\ outcome.kind = "Ok"
        /\ \/ outcome.quality = MaxQuality
           \/ /\ outcome.quality = HighestProbed
              /\ 100 * outcome.bytes >= 99 * max_size

\* C4 as amended: for a monotone encoder and max_size >= the quality-100 size
\* the search always chooses a quality and hands its encoding to the file
\* write, so the call returns Ok unless the write itself fails (FileWrite);
\* the chosen quality is 100 or the highest quality probed, whose size is then
\* >= 0.99 * max_size.
C4_ChoosesAtOrAboveFullSize ==
    (enc.mono /\ epc = "done" /\ MonoSize(enc, MaxQuality) <= max_size) =>
        /\ outcome.kind \in {"Ok", "FileWrite"}
        /\ outcome.kind = "Ok" =>
              outcome.quality = Chosen /\ outcome.bytes = best.val.size
        /\ best.some
        /\ best.val.size = MonoSize(enc, Chosen)
        /\ \/ Chosen = MaxQuality
           \/ /\ Chosen = HighestProbed
              /\ 100 * best.val.size >= 99 * max_size

C4_Witness ==
    /\ enc.mono
    /\ epc = "done"
    /\ MonoSize(enc, MaxQuality) <= max_size
    /\ outcome.kind = "Ok"
    /\ outcome.quality = HighestProbed
    /\ outcome.quality < MaxQuality
    /\ Len(probes) > 1

\* C5: for every encoder and every max_size the loop ends (low > high or the
\* early exit) after at most 7 encode calls, the whole call makes at most 7,
\* and low, high and their sum stay inside the u8 range at every step (no
\* panic, no wrap).
MaxProbes == 7

C5_SearchBounded ==
    /\ Len(probes) <= MaxProbes
    /\ low \in 0..255
    /\ high \in 0..255
    /\ low + high \in 0..255
    /\ epc # "panic"
    /\ (epc = "loop" /\ Len(probes) = MaxProbes) => low > high

C5_Witness ==
    /\ ~enc.mono
    /\ epc = "match"
    /\ Len(probes) = MaxProbes
    /\ NonMonotoneSeen

(***************************************************************************)
(* Claims about Transformation::apply, checked under SpecApply.  t_src is  *)
(* a buffer with width >= 0, height >= 0 and width * height pixels; after  *)
(* the first ApplyOnce t_res is the outcome of t_op on t_src.              *)
(***************************************************************************)
\* The invariant of a PixelBuffer.
Valid(img) ==
    /\ img.width >= 0
    /\ img.height >= 0
    /\ Len(img.pixels) = img.width * img.height

\* The pixel of img at column x, row y (row-major).
At(img, x, y) == img.pixels[y * img.width + x + 1]

\* C6 as claimed: starting from a buffer with width >= 0, height >= 0 and
\* pixels.length == width*height, every buffer a transform returns has
\* width >= 0, height >= 0 and pixels.length == width*height.
C6_ReturnedBufferValid ==
    (Valid(t_src) /\ t_n >= 1 /\ t_res.kind = "Ok") => Valid(t_res.image)

\* C7 as claimed: every apply on a valid buffer, for every transform and
\* every integer argument, ends by returning a buffer or OutOfBounds, never
\* in a fault (out-of-range pixel index, arithmetic overflow).
C7_ApplyNeverFaults ==
    (Valid(t_src) /\ t_n = 1) => t_res.kind \in {"Ok", "OutOfBounds"}

\* C8 as claimed: Crop(x, y, w, h) on a width x height buffer returns
\* OutOfBounds, and no buffer, whenever x+w > width or y+h > height.  (The
\* sums are those of the integers: x > width - w is x + w > width.)
C8_CropOutOfBoundsWheneverBeyond ==
    (/\ t_op.t = "Crop"
     /\ t_n = 1
     /\ \/ t_op.x > t_src.width - t_op.w
        \/ t_op.y > t_src.height - t_op.h)
    => t_res.kind = "OutOfBounds"

\* C9 as claimed: whenever Crop(x, y, w, h) succeeds the result is a w x h
\* buffer whose pixel at (dx, dy), 0 <= dx < w and 0 <= dy < h, is the source
\* pixel at column x+dx and row y+dy, with 0 <= x+dx < width and
\* 0 <= y+dy < height; Crop(0, 0, width, height) returns the source.
C9_CropCopiesRectangle ==
    (t_op.t = "Crop" /\ t_n = 1 /\ t_res.kind = "Ok") =>
        /\ t_res.image.width = t_op.w
        /\ t_res.image.height = t_op.h
        /\ Valid(t_res.image)
        /\ \A dx \in Below(t_op.w), dy \in Below(t_op.h) :
              /\ t_op.x + dx \in Below(t_src.width)
              /\ t_op.y + dy \in Below(t_src.height)
              /\ At(t_res.image, dx, dy) = At(t_src, t_op.x + dx, t_op.y + dy)
        /\ (t_op.x = 0 /\ t_op.y = 0 /\ t_op.w = t_src.width /\ t_op.h = t_src.height)
              => t_res.image = t_src

\* C10: for every buffer, Flip(Horizontal) applied twice returns a buffer of
\* the same dimensions with the same pixel at every position as the original,
\* and so does Flip(Vertical) applied twice; neither application fails.
C10_FlipTwiceIsIdentity ==
    (t_op.t = "Flip" /\ t_n >= 1) =>
        /\ t_res.kind = "Ok"
        /\ t_n = 2 =>
              /\ t_res.image.width = t_src.width
              /\ t_res.image.height = t_src.height
              /\ \A x \in Below(t_src.width), y \in Below(t_src.height) :
                    At(t_res.image, x, y) = At(t_src, x, y)
              /\ Len(t_res.image.pixels) = Len(t_src.pixels)

\* A second flip that has something to undo: the first flip moved pixels of
\* a buffer of the largest size.
C10_Witness ==
    /\ t_op.t = "Flip"
    /\ t_n = 2
    /\ t_res.kind = "Ok"
    /\ t_src.width = MaxW
    /\ t_src.height = MaxH
    /\ Apply(t_op, t_src, TRUE).image # t_src
    /\ t_res.image = t_src

\* C11: for every buffer, square or not, Rotate(90) applied four times in a
\* row returns a buffer with the original width, the original height and the
\* original pixel at every position; none of the four applications fails.
C11_Rotate90FourTimesIsIdentity ==
    (t_op.t = "Rotate" /\ t_op.angle = 90 /\ t_n >= 1) =>
        /\ t_res.kind = "Ok"
        /\ t_n = 4 =>
              /\ t_res.image.width = t_src.width
              /\ t_res.image.height = t_src.height
              /\ Len(t_res.image.pixels) = Len(t_src.pixels)
              /\ \A x \in Below(t_src.width), y \in Below(t_src.height) :
                    At(t_res.image, x, y) = At(t_src, x, y)

\* The fourth quarter turn of a buffer that is not square and that one
\* quarter turn changes.
C11_Witness ==
    /\ t_op.t = "Rotate"
    /\ t_op.angle = 90
    /\ t_n = 4
    /\ t_res.kind = "Ok"
    /\ t_src.width = MaxW
    /\ t_src.height = MaxH - 1
    /\ Apply(t_op, t_src, TRUE).image # t_src
    /\ t_res.image = t_src

\* The destination (column, row) the claim gives source (x, y).
RotateTarget(img, angle, x, y) ==
    CASE angle = 90  -> <<img.height - 1 - y, x>>
      [] angle = 180 -> <<img.width - 1 - x, img.height - 1 - y>>
      [] angle = 270 -> <<y, img.width - 1 - x>>

\* C12: Rotate puts the source pixel at (x, y) at destination
\* (height-1-y, x) for 90 degrees and at (y, width-1-x) for 270 degrees, in a
\* result of width = source height and height = source width, and at
\* (width-1-x, height-1-y) for 180 degrees in a result of unchanged size;
\* every destination position receives exactly one source pixel.
C12_RotateMapping ==
    (t_op.t = "Rotate" /\ t_n = 1) =>
        LET res == t_res.image
            target(x, y) == RotateTarget(t_src, t_op.angle, x, y)
            sources == Below(t_src.width) \X Below(t_src.height)
        IN  /\ t_res.kind = "Ok"
            /\ res.width = IF t_op.angle = 180 THEN t_src.width ELSE t_src.height
            /\ res.height = IF t_op.angle = 180 THEN t_src.height ELSE t_src.width
            /\ Len(res.pixels) = res.width * res.height
            /\ \A p \in sources :
                  /\ target(p[1], p[2])[1] \in Below(res.width)
                  /\ target(p[1], p[2])[2] \in Below(res.height)
                  /\ At(res, target(p[1], p[2])[1], target(p[1], p[2])[2])
                        = At(t_src, p[1], p[2])
            /\ \A i \in Below(res.width), j \in Below(res.height) :
                  Cardinality({p \in sources : target(p[1], p[2]) = <<i, j>>}) = 1

\* A three-quarter turn of a buffer that is not square, with pairwise
\* distinct pixels.
C12_Witness ==
    /\ t_op.t = "Rotate"
    /\ t_op.angle = 270
    /\ t_n = 1
    /\ t_res.kind = "Ok"
    /\ t_src.width = MaxW
    /\ t_src.height = MaxH - 1
    /\ t_res.image.width = MaxH - 1
    /\ \A i, j \in 1..Len(t_src.pixels) : i # j => t_src.pixels[i] # t_src.pixels[j]

Min2(a, b) == IF a <= b THEN a ELSE b

\* floor(size * min(maxWidth/width, maxHeight/height, 1)) over the reals,
\* for positive arguments: the floor of the least of three products.
FitExact(size, img, max_width, max_height) ==
    Min2(size, Min2((size * max_width) \div img.width,
                    (size * max_height) \div img.height))

\* C13 as claimed, for a buffer with width, height >= 1 and maxWidth,
\* maxHeight >= 1: Fit returns a buffer of floor(width*scale) x
\* floor(height*scale) with scale = min(maxWidth/width, maxHeight/height, 1),
\* no larger than the source or than maxWidth x maxHeight, whose pixel
\* (dx, dy) is the source pixel at (floor(dx*width/newWidth),
\* floor(dy*height/newHeight)), a position inside the source.
C13_FitDimensionsAndSamples ==
    (/\ t_op.t = "Fit"
     /\ t_n = 1
     /\ t_src.width >= 1 /\ t_src.height >= 1
     /\ t_op.max_width >= 1 /\ t_op.max_height >= 1) =>
        LET res == t_res.image IN
        /\ t_res.kind = "Ok"
        /\ res.width = FitExact(t_src.width, t_src, t_op.max_width, t_op.max_height)
        /\ res.height = FitExact(t_src.height, t_src, t_op.max_width, t_op.max_height)
        /\ res.width <= t_src.width /\ res.width <= t_op.max_width
        /\ res.height <= t_src.height /\ res.height <= t_op.max_height
        /\ Len(res.pixels) = res.width * res.height
        /\ \A dx \in Below(res.width), dy \in Below(res.height) :
              LET sx == (dx * t_src.width) \div res.width
                  sy == (dy * t_src.height) \div res.height
              IN  /\ sx \in Below(t_src.width)
                  /\ sy \in Below(t_src.height)
                  /\ At(res, dx, dy) = At(t_src, sx, sy)

\* clamp(v, 0, limit - 1) of the claim: the nearest position inside 0..limit-1.
ClampToEdge(v, limit) == IF v < 0 THEN 0 ELSE IF v > limit - 1 THEN limit - 1 ELSE v

\* The pixel a kernel gives position (x, y) when each offset (dx, dy) samples
\* the source at (clamp(x+dx, 0, width-1), clamp(y+dy, 0, height-1)).
ClampedConvolution(img, kernel, x, y) ==
    LET offs == WindowOffsets(kernel)
        sample(i) == At(img, ClampToEdge(x + offs[i].dx, img.width),
                             ClampToEdge(y + offs[i].dy, img.height))
        ch(c) == Accumulate([i \in 1..Len(offs) |-> sample(i)[c]], kernel.values, 1, Zero(1))
    IN  PixelFromF32(ch("r"), ch("g"), ch("b"))

\* C14: a kernel filter applied to a buffer with width >= 1 and height >= 1
\* returns a buffer of the same dimensions; for every pixel (x, y) and kernel
\* offset (dx, dy) the source is sampled at (clamp(x+dx, 0, width-1),
\* clamp(y+dy, 0, height-1)), a position inside the buffer, so the result
\* pixel is the weighted sum of those samples; on a 1x1 buffer every offset
\* samples the single pixel.
C14_KernelSamplesClamped ==
    (t_op.t = "Kernel" /\ t_n = 1 /\ t_src.width >= 1 /\ t_src.height >= 1) =>
        LET kernel == KernelOf(t_op.kernel)
            offs == WindowOffsets(kernel)
        IN  /\ t_res.kind = "Ok"
            /\ t_res.image.width = t_src.width
            /\ t_res.image.height = t_src.height
            /\ Len(t_res.image.pixels) = t_src.width * t_src.height
            /\ \A x \in Below(t_src.width), y \in Below(t_src.height) :
                  /\ \A i \in 1..Len(offs) :
                        LET w == WindowIdx(t_src, x, y, offs[i].dx, offs[i].dy) IN
                        /\ w.ok
                        /\ w.x = ClampToEdge(x + offs[i].dx, t_src.width)
                        /\ w.y = ClampToEdge(y + offs[i].dy, t_src.height)
                        /\ w.x \in Below(t_src.width)
                        /\ w.y \in Below(t_src.height)
                        /\ (t_src.width = 1 /\ t_src.height = 1) => w.v = 0
                  /\ At(t_res.image, x, y) = ClampedConvolution(t_src, kernel, x, y)

\* An unnormalized kernel on the largest buffer with pairwise distinct
\* pixels: the corner pixel's window reaches outside on two sides.
C14_Witness ==
    /\ t_op.t = "Kernel"
    /\ t_op.kernel = "Emboss"
    /\ t_n = 1
    /\ t_res.kind = "Ok"
    /\ t_src.width = MaxW
    /\ t_src.height = MaxH
    /\ t_src.pixels[1] # t_src.pixels[2]
    /\ WindowIdx(t_src, 0, 0, -1, -1).v = 0
    /\ t_res.image # t_src

\* The step of the dispatcher that reads the command word cmd.
Reads(cmd) == n_cmd' = n_cmd + 1 /\ last'.cmd = cmd

\* C15 as stated: an undo issued when there is no previous buffer leaves the
\* current buffer and the empty history unchanged and reports nothing to undo.
C15_UndoWithoutHistoryReportsNothingToUndo ==
    [][(Reads("undo") /\ ~previous_image.some)
          => /\ current_image' = current_image
             /\ previous_image' = None
             /\ last'.out = "Nothing to undo"]_vars

\* C15, amended: with an image loaded and no previous buffer, an undo leaves the
\* current buffer and the empty history unchanged and reports nothing to undo;
\* with no image loaded it changes nothing either and reports "No image loaded".
C15_UndoWithoutHistory ==
    [][(Reads("undo") /\ ~previous_image.some)
          => /\ current_image' = current_image
             /\ previous_image' = None
             /\ last'.out = IF current_image.some THEN "Nothing to undo"
                                                  ELSE "No image loaded"]_vars

\* An undo with an image loaded and an empty history has reported nothing to undo.
C15_Witness ==
    /\ last = [cmd |-> "undo", out |-> "Nothing to undo"]
    /\ current_image.some
    /\ current_image = before_image
    /\ ~previous_image.some

\* C16: an undo right after a successful transform command makes the buffer that
\* was current before that transform current again and empties the history.
C16_UndoAfterTransformRestores ==
    [][(Reads("undo") /\ last.cmd \in TransformWords /\ last.out = "Ok")
          => /\ current_image' = before_image
             /\ previous_image' = None
             /\ last'.out = "Ok"]_vars

\* An undo has followed a transform that changed the buffer: before_image is now
\* the transformed buffer, which is neither current nor kept.
C16_Witness ==
    /\ last = [cmd |-> "undo", out |-> "Ok"]
    /\ current_image.some
    /\ before_image.some
    /\ current_image # before_image
    /\ ~previous_image.some

\* The outcomes of a failed or rejected command: what it printed, or that it
\* printed nothing (a colour that is not hexadecimal).
Rejections ==
    {"Error", "Usage", "Invalid number", "Invalid axis", "Invalid angle", "Nothing printed",
     "Unknown command", "No image loaded"}

\* C17: a command that fails or is rejected leaves both the current buffer and
\* the previous buffer unchanged.
C17_RejectedCommandChangesNothing ==
    [][(n_cmd' = n_cmd + 1 /\ last'.out \in Rejections)
          => /\ current_image' = current_image
             /\ previous_image' = previous_image]_vars

\* A crop has returned OutOfBounds while there was a previous buffer to lose.
C17_Witness ==
    /\ last = [cmd |-> "crop", out |-> "Error"]
    /\ previous_image.some
    /\ current_image = before_image
    /\ current_image # previous_image

=============================================================================
